---- MODULE Spec2Model ----
(***************************************************************************)
(* Model of the Alerter class of error-alerts (src/Alerter.js): the        *)
(* occurrence store (_timestamps / _queued), the range index (_find_bound, *)
(* _find_range), the threshold evaluator (_check), the configuration       *)
(* registry (_one and its setters), the start-up recovery (start and its   *)
(* two read callbacks) and the persistence layer (_flush_queued, _write,   *)
(* _save) together with the part of the file system the class talks to.    *)
(***************************************************************************)
EXTENDS Integers, Sequences, FiniteSets, TLC

(***************************************************************************)
(* Names and literals of the source.                                       *)
(***************************************************************************)
ALL == "_all"
DEFAULT == "_default"
RangeError == "RangeError"
Keys == {ALL, DEFAULT, RangeError}

\* the value of a field that was never set (JavaScript undefined)
Undefined == -1
\* parseInt of a line that holds no number
NaN == -2

minute == "minute"
hour == "hour"
day == "day"
Windows == {minute, hour, day}

\* how many milliseconds a threshold must be reached in
window == [minute |-> 60000, hour |-> 3600000, day |-> 86400000]

\* moment.duration(1, 'days') and moment.duration(c, 'minutes') in milliseconds
OneDay == 86400000
MinuteMs == 60000

(***************************************************************************)
(* Bounds of the model.                                                    *)
(***************************************************************************)
\* the clock when the first process is constructed (milliseconds)
Epoch == 200000000
\* calls of tell, and configuration statements, in a run without a restart
MaxTells == 2
MaxConfig == 2
\* the same in a run with restarts, and the restarts in it
MaxTellsR == 2
MaxConfigR == 1
MaxCrash == 1
\* the same in the runs the flush is examined in
MaxTellsF == 2
MaxConfigF == 1
\* tells and configuration statements of a run under fairness
MaxTellsL == 1
MaxConfigL == 1
\* the longest history, and the latest timestamp in it, that the range
\* queries are examined on
MaxLen == 3
MaxStamp == 3
\* lines a write stream buffers before write() reports a full buffer
HighWaterMark == 2

\* how far the clock can have moved on when tell or start reads it
Deltas == {0, 60000}
\* the keys, windows and values the configuration calls are made with
ConfigKeys == {ALL, RangeError}
ConfigWindows == {minute, day}
ThresholdInputs == {1, 3}
CooldownInputs == {1}
\* the contents RangeError's log can have when the first process starts
InitLogs == {<< >>, <<Epoch - OneDay - 1000, Epoch - OneDay, Epoch - 1000>>}

(***************************************************************************)
(* JavaScript helpers.                                                     *)
(***************************************************************************)
\* obj[key] || []
OrEmpty(obj, key) == IF key \in DOMAIN obj THEN obj[key] ELSE << >>

\* array[i] with a zero-based index; undefined outside the array
At(array, i) == IF i >= 0 /\ i < Len(array) THEN array[i + 1] ELSE Undefined

\* comparisons in which an undefined operand makes the result false
Lte(a, b) == a # Undefined /\ b # Undefined /\ a <= b
Gt(a, b) == a # Undefined /\ b # Undefined /\ a > b
Lt(a, b) == a # Undefined /\ b # Undefined /\ a < b
StrictEq(a, b) == a # Undefined /\ b # Undefined /\ a = b

RECURSIVE ScanBack(_, _, _)
\* while (timestamps[middle - 1] === target) middle--
ScanBack(target, timestamps, middle) ==
  IF StrictEq(At(timestamps, middle - 1), target)
    THEN ScanBack(target, timestamps, middle - 1)
    ELSE middle

RECURSIVE _find_bound(_, _, _, _)
\* the first index whose timestamp is >= target; left and right are always
\* given here (the defaults 0 and length - 1 are supplied by find_bound)
_find_bound(target, timestamps, left, right) ==
  IF Lte(target, At(timestamps, 0)) THEN 0
  ELSE IF Gt(target, At(timestamps, Len(timestamps) - 1)) THEN Len(timestamps)
  ELSE IF left = right THEN left
  ELSE LET middle == ((right - left) \div 2) + left
       IN IF StrictEq(At(timestamps, middle), target)
            THEN ScanBack(target, timestamps, middle)
          ELSE IF Gt(target, At(timestamps, middle))
            THEN _find_bound(target, timestamps, middle + 1, right)
          ELSE IF Lt(target, At(timestamps, middle))
            THEN _find_bound(target, timestamps, left, middle)
          ELSE Undefined

\* _find_bound(target, timestamps) with the default bounds
find_bound(target, timestamps) ==
  _find_bound(target, timestamps, 0, Len(timestamps) - 1)

\* a value is truthy when it is neither undefined nor 0
Truthy(v) == v # Undefined /\ v # 0

\* _find_range over the history saved ++ queued; range.from / range.to are
\* Undefined when the caller leaves them out
_find_range(saved, queued, from, to) ==
  LET timestamps == saved \o queued
      r_from == IF Truthy(from) THEN find_bound(from, timestamps) ELSE 0
      r_to0 == IF Truthy(to) THEN find_bound(from, timestamps)
               ELSE Len(timestamps) - 1
      r_to == IF Truthy(to) /\ r_to0 = Len(timestamps) THEN r_to0 - 1 ELSE r_to0
  IN [from |-> r_from, to |-> r_to]

\* range.to - range.from + 1; NaN when a bound is undefined
error_count(range) ==
  IF range.from = Undefined \/ range.to = Undefined THEN NaN
  ELSE range.to - range.from + 1

\* data.join("\n") + "\n" as the lines it puts in the file: one line per
\* timestamp, and one empty line for an empty array
JoinLines(data) == IF data = << >> THEN <<NaN>> ELSE data

\* data.split("\n").map(parseInt): the lines, and the empty piece that
\* follows the last newline (or is the whole of an empty file)
SplitParse(lines) == lines \o <<NaN>>

\* a filter that leaves out the timestamp that is exactly at the cutoff
FreshStrictly(t, cutoff) == t # NaN /\ t > cutoff

\* .filter(timestamp => timestamp >= one_day_ago): NaN compares false
Fresh(t, cutoff) == t # NaN /\ t >= cutoff
FilterFresh(parsed, cutoff) == SelectSeq(parsed, LAMBDA t : Fresh(t, cutoff))

(***************************************************************************)
(* The state.                                                              *)
(***************************************************************************)
VARIABLES
  now,          \* Date.now() / moment(): the wall clock, in milliseconds
  _settings,    \* this._settings: event type -> settings
  _timestamps,  \* this._timestamps: event type -> committed timestamps
  _queued,      \* this._queued: event type -> timestamps not yet written
  _started,     \* this._started
  _ready,       \* this._ready
  recovery,     \* the variables of the closure start() runs its reads in
  callback_log, \* what the callback given to start has been called with
  fs_log,       \* the log files on disk: event type -> lines
  fs_state,     \* the JSON object in the file _state on disk
  streams,      \* the write streams: event type -> buffer and flags
  alerts,       \* the alerts sent so far (sendmail in _alert), in order
  op,           \* the call or callback that ran last
  raised,       \* the exception it threw at its caller
  prev,         \* what the process stopped last held, if it had nothing to write
  left,         \* the calls of each bounded kind the run may still make
  found         \* what the last range query made of the store has returned

vars == <<now, _settings, _timestamps, _queued, _started, _ready, recovery,
          callback_log, fs_log, fs_state, streams, alerts, op, raised, prev, left,
          found>>

\* one window of _blank_settings
blank_window ==
  [enabled |-> FALSE, threshold |-> Undefined, cooldown |-> Undefined,
   last_alert |-> Undefined]

\* _blank_settings(); stream is TRUE once a write stream object is stored
_blank_settings ==
  [watch |-> TRUE, log |-> FALSE, stream |-> FALSE, draining |-> FALSE,
   minute |-> blank_window, hour |-> blank_window, day |-> blank_window]

\* a write stream nobody has created or written to
closed_stream == [opened |-> FALSE, buf |-> << >>, need_drain |-> FALSE]

\* the closure of start() before start is called
no_recovery ==
  [reads_left |-> 0, read_error |-> FALSE, opens_left |-> 0,
   open_error |-> FALSE, state_loaded |-> FALSE, state_error |-> FALSE,
   one_day_ago |-> 0, called_at |-> 0, targets |-> {}, pending |-> {},
   state_read |-> "none", state_data |-> << >>]

\* no range query has been made
no_result ==
  [query |-> "none", from |-> Undefined, to |-> Undefined, index |-> Undefined,
   range |-> [from |-> Undefined, to |-> Undefined]]

no_prev ==
  [stopped |-> FALSE, ready |-> FALSE, flushed |-> FALSE,
   after_alert |-> FALSE, history |-> << >>,
   last_alert |-> << >>, targets |-> {}, state_file |-> << >>,
   left |-> << >>]

\* the state after the constructor, on a disk earlier runs may have written
Constructed ==
  /\ now = Epoch
  /\ _settings = (ALL :> _blank_settings) @@ (DEFAULT :> _blank_settings)
  /\ _timestamps = (ALL :> << >>)
  /\ _queued = (ALL :> << >>)
  /\ _started = FALSE
  /\ _ready = FALSE
  /\ recovery = no_recovery
  /\ callback_log = << >>
  /\ fs_state = << >>
  /\ streams = [k \in Keys |-> closed_stream]
  /\ alerts = << >>
  /\ op = "new"
  /\ raised = "none"
  /\ prev = no_prev
  /\ found = no_result

\* the disk when RangeError's log holds lines
Disk(lines) == fs_log = [k \in Keys |-> IF k = RangeError THEN lines ELSE << >>]

Init ==
  /\ Constructed
  /\ \E lines \in InitLogs : Disk(lines)
  /\ left = [tells |-> MaxTells, configs |-> MaxConfig, crashes |-> 0]

InitF ==
  /\ Constructed
  /\ \E lines \in InitLogs : Disk(lines)
  /\ left = [tells |-> MaxTellsF, configs |-> MaxConfigF, crashes |-> 0]

InitL ==
  /\ Constructed
  /\ \E lines \in InitLogs : Disk(lines)
  /\ left = [tells |-> MaxTellsL, configs |-> MaxConfigL, crashes |-> 0]

InitR ==
  /\ Constructed
  /\ \E lines \in InitLogs \ {<< >>} : Disk(lines)
  /\ left = [tells |-> MaxTellsR, configs |-> MaxConfigR, crashes |-> MaxCrash]

(***************************************************************************)
(* The memory and the disk an operation reads and writes, as one record,   *)
(* so that the calls an operation makes can be composed in their order.    *)
(***************************************************************************)
Mem ==
  [settings |-> _settings, timestamps |-> _timestamps, queued |-> _queued,
   streams |-> streams, state_file |-> fs_state, alerts |-> alerts]

Store(m) ==
  /\ _settings' = m.settings
  /\ _timestamps' = m.timestamps
  /\ _queued' = m.queued
  /\ streams' = m.streams
  /\ fs_state' = m.state_file
  /\ alerts' = m.alerts

\* JSON.stringify leaves out the fields whose value is undefined
Stringify(settings) ==
  [k \in DOMAIN settings |->
     [w \in {x \in Windows : settings[k][x].last_alert # Undefined} |->
        settings[k][w].last_alert]]

\* json[error_type][w] of the parsed state file
JsonGet(json, k, w) == IF w \in DOMAIN json[k] THEN json[k][w] ELSE Undefined

_save(m) == [m EXCEPT !.state_file = Stringify(m.settings)]

\* stream.write(data): the lines go to the buffer; the result is false when
\* the buffer has reached the high-water mark
stream_write(s, lines) ==
  LET buf == s.buf \o lines
  IN [ret |-> Len(buf) < HighWaterMark,
      stream |-> [s EXCEPT !.buf = buf,
                           !.need_drain = @ \/ Len(buf) >= HighWaterMark]]

\* a _write that does not look at the draining flag
_write_while_draining(m, error_type, data) ==
  LET error_settings == m.settings[error_type]
  IN IF ~error_settings.log THEN [ret |-> TRUE, m |-> m]
     ELSE IF ~error_settings.stream THEN [ret |-> FALSE, m |-> m]
     ELSE LET w == stream_write(m.streams[error_type], JoinLines(data))
          IN [ret |-> TRUE,
              m |-> [m EXCEPT !.streams[error_type] = w.stream,
                              !.settings[error_type].draining =
                                 IF ~w.ret THEN TRUE ELSE @]]

\* _write(error_type, data): its result and the memory after it
_write(m, error_type, data) ==
  LET error_settings == m.settings[error_type]
  IN IF ~error_settings.log THEN [ret |-> TRUE, m |-> m]
     ELSE IF error_settings.draining \/ ~error_settings.stream
       THEN [ret |-> FALSE, m |-> m]
     ELSE LET w == stream_write(m.streams[error_type], JoinLines(data))
          IN [ret |-> TRUE,
              m |-> [m EXCEPT !.streams[error_type] = w.stream,
                              !.settings[error_type].draining =
                                 IF ~w.ret THEN TRUE ELSE @]]

\* a flush that takes the key out of the queue whether it was written or not
flush_key_dropping(m, error_type) ==
  LET w == _write(m, error_type, OrEmpty(m.queued, error_type))
      q == w.m.queued
  IN [w.m EXCEPT
        !.timestamps = IF w.ret
                         THEN (error_type :> (OrEmpty(w.m.timestamps, error_type)
                                              \o OrEmpty(q, error_type))) @@ @
                         ELSE @,
        !.queued = [k \in DOMAIN q \ {error_type} |-> q[k]]]

\* the body of the loop of _flush_queued for one key of _queued
flush_key(m, error_type) ==
  LET timestamps == OrEmpty(m.queued, error_type)
      w == _write(m, error_type, timestamps)
      q == w.m.queued
  IN IF w.ret
       THEN [w.m EXCEPT
               !.timestamps = (error_type :> (OrEmpty(w.m.timestamps, error_type)
                                              \o OrEmpty(q, error_type))) @@ @,
               !.queued = [k \in DOMAIN q \ {error_type} |-> q[k]]]
       ELSE w.m

RECURSIVE flush_keys(_, _)
flush_keys(m, keys) ==
  IF keys = {} THEN m
  ELSE LET k == CHOOSE x \in keys : TRUE
       IN flush_keys(flush_key(m, k), keys \ {k})

\* _flush_queued(): for (let error_type in this._queued)
_flush_queued(m) == flush_keys(m, DOMAIN m.queued)

\* an _alert that sends the mail and does not save
_alert_unsaved(m, error_type, trigger_name) ==
  [m EXCEPT !.alerts =
     Append(@, [key |-> error_type, window |-> trigger_name,
                time |-> m.settings[error_type][trigger_name].last_alert])]

\* _alert(error_type, trigger_name): sendmail, then _save
_alert(m, error_type, trigger_name) ==
  _save([m EXCEPT !.alerts =
           Append(@, [key |-> error_type, window |-> trigger_name,
                      time |-> m.settings[error_type][trigger_name].last_alert])])

\* a cooldown that is over at exactly cooldown minutes after the last alert
InCooldown_until(check, current_time) ==
  /\ Truthy(check.last_alert)
  /\ check.cooldown # Undefined
  /\ check.last_alert > current_time - check.cooldown * MinuteMs

\* the cooldown test of _check: contacts have been alerted recently
InCooldown(check, current_time) ==
  /\ Truthy(check.last_alert)
  /\ check.cooldown # Undefined
  /\ check.last_alert >= current_time - check.cooldown * MinuteMs

\* error_count >= check.threshold, false for NaN and for an undefined threshold
ReachesThreshold(count, threshold) ==
  count # NaN /\ threshold # Undefined /\ count >= threshold

\* the body of the loop of _check for one window
check_window(m, error_type, check_key, current_time) ==
  LET check == m.settings[error_type][check_key]
      range == _find_range(OrEmpty(m.timestamps, error_type),
                           OrEmpty(m.queued, error_type),
                           current_time - window[check_key], Undefined)
  IN IF ~check.enabled THEN m
     ELSE IF InCooldown(check, current_time) THEN m
     ELSE IF ReachesThreshold(error_count(range), check.threshold)
       THEN _alert([m EXCEPT !.settings[error_type][check_key].last_alert =
                               current_time],
                   error_type, check_key)
     ELSE m

\* _check(error_type, current_time): minute, then hour, then day
_check(m, error_type, current_time) ==
  check_window(
    check_window(
      check_window(m, error_type, minute, current_time),
      error_type, hour, current_time),
    error_type, day, current_time)

\* a _tell that queues the timestamp twice
_tell_pushing_twice(m, key, current_time) ==
  LET pushed == [m EXCEPT !.queued =
                   (key :> (OrEmpty(m.queued, key)
                            \o <<current_time, current_time>>)) @@ @]
  IN _check(_flush_queued(pushed), key, current_time)

\* _tell(key, current_time)
_tell(m, key, current_time) ==
  LET pushed == [m EXCEPT !.queued =
                   (key :> Append(OrEmpty(m.queued, key), current_time)) @@ @]
  IN _check(_flush_queued(pushed), key, current_time)

\* _key(error): an error is [kind, name]; a string is used as it is, an Error
\* gives the name of its class
_key(error) ==
  IF error.kind = "string" THEN error.name
  ELSE IF error.kind = "Error" THEN error.name
  ELSE DEFAULT

(***************************************************************************)
(* The configuration registry: one(key) / all() and the setters of the     *)
(* object it returns.  A statement of chained setters runs to its end      *)
(* before anything else does, so it is one step.                           *)
(***************************************************************************)
\* _one(error): the settings of the key, created when the key has none
_one(settings, key) ==
  IF key \in DOMAIN settings THEN settings
  ELSE (key :> _blank_settings) @@ settings

Configure(name, settings) ==
  /\ left.configs > 0
  /\ settings # _settings
  /\ _settings' = settings
  /\ left' = [left EXCEPT !.configs = @ - 1]
  /\ op' = name
  /\ UNCHANGED found
  /\ raised' = "none"
  /\ UNCHANGED <<now, _timestamps, _queued, _started, _ready, recovery,
                 callback_log, fs_log, fs_state, streams, alerts, prev>>

\* one(key).watch()
watch(key) ==
  Configure("watch", [_one(_settings, key) EXCEPT ![key].watch = TRUE])

\* one(key).ignore()
ignore(key) ==
  Configure("ignore", [_one(_settings, key) EXCEPT ![key].watch = FALSE])

\* one(key).log(true): the path is `${root}/${key}.log`
log(key) ==
  Configure("log", [_one(_settings, key) EXCEPT ![key].log = TRUE])

\* one(key).minute().on().threshold(n).cooldown(c), and the same for the
\* other windows
on_threshold_cooldown(key, w, n, c) ==
  Configure("on_threshold_cooldown",
            [_one(_settings, key) EXCEPT ![key][w].enabled = TRUE,
                                         ![key][w].threshold = n,
                                         ![key][w].cooldown = c])

\* one(key).minute().off()
off(key, w) ==
  Configure("off", [_one(_settings, key) EXCEPT ![key][w].enabled = FALSE])

(***************************************************************************)
(* tell and dead.                                                          *)
(***************************************************************************)
\* what tell is called with: new RangeError() and the string "RangeError"
Errors ==
  {[kind |-> "Error", name |-> RangeError],
   [kind |-> "string", name |-> RangeError]}

\* tell(error), called when the clock has moved on by d
tell(error, d) ==
  /\ left.tells > 0
  /\ left' = [left EXCEPT !.tells = @ - 1]
  /\ op' = "tell"
  /\ UNCHANGED found
  /\ UNCHANGED <<_started, _ready, recovery, callback_log, fs_log, prev>>
  /\ IF error.kind # "Error"
       THEN \* !(error instanceof Error): return
            /\ d = 0
            /\ raised' = "none"
            /\ UNCHANGED <<now, _settings, _timestamps, _queued, streams,
                           fs_state, alerts>>
       ELSE LET current_time == now + d
                m1 == IF _settings[ALL].watch
                        THEN _tell(Mem, ALL, current_time) ELSE Mem
                key == _key(error)
            IN /\ now' = current_time
               /\ IF key \notin DOMAIN m1.settings
                    THEN \* this._settings[key] is undefined: .watch throws
                         /\ Store(m1)
                         /\ raised' = "TypeError"
                    ELSE /\ Store(IF m1.settings[key].watch
                                    THEN _tell(m1, key, current_time) ELSE m1)
                         /\ raised' = "none"

\* dead(err, callback): _save, then the crash mail
dead ==
  /\ Store(_save(Mem))
  /\ op' = "dead"
  /\ UNCHANGED found
  /\ raised' = "none"
  /\ UNCHANGED <<now, _started, _ready, recovery, callback_log, fs_log, prev,
                 left>>

(***************************************************************************)
(* start and the callbacks of its reads.                                   *)
(***************************************************************************)
\* start reading the log of every logged error type, watched or not
targets_of_ignored_too(settings) ==
  {error_type \in DOMAIN settings : settings[error_type].log}

\* the error types start reads a log for
targets(settings) ==
  {error_type \in DOMAIN settings :
     settings[error_type].watch /\ settings[error_type].log}

\* start(callback), called when the clock has moved on by d
start(d) ==
  /\ UNCHANGED <<_settings, _timestamps, _queued, _ready, callback_log,
                 fs_log, fs_state, streams, alerts, prev, left>>
  /\ op' = "start"
  /\ UNCHANGED found
  /\ IF _started
       THEN \* new AlerterErrror(...): the name is not defined, so evaluating
            \* the argument throws before callback is called
            /\ d = 0
            /\ raised' = "ReferenceError"
            /\ UNCHANGED <<now, _started, recovery>>
       ELSE /\ now' = now + d
            /\ _started' = TRUE
            /\ recovery' =
                 [reads_left |-> Cardinality(targets(_settings)),
                  read_error |-> FALSE,
                  opens_left |-> Cardinality(targets(_settings)),
                  open_error |-> FALSE,
                  state_loaded |-> FALSE, state_error |-> FALSE,
                  one_day_ago |-> (now + d) - OneDay,
                  called_at |-> now + d,
                  targets |-> targets(_settings),
                  pending |-> targets(_settings),
                  state_read |-> "issued", state_data |-> << >>]
            /\ raised' = "none"

\* if (!reads_left && !opens_left && state_loaded)
Complete(r) == r.reads_left = 0 /\ r.opens_left = 0 /\ r.state_loaded

\* alerter._ready = true; alerter._flush_queued(); callback()
Finish(m, r) ==
  IF Complete(r)
    THEN /\ _ready' = TRUE
         /\ Store(_flush_queued(m))
         /\ callback_log' = Append(callback_log, "ok")
    ELSE /\ Store(m)
         /\ UNCHANGED <<_ready, callback_log>>

\* keeping every timestamp of the file, whatever its age
recovered_of_any_age(lines, one_day_ago) ==
  SelectSeq(SplitParse(lines), LAMBDA t : t # NaN)

\* the timestamps readFile_callback keeps of the file it has read
recovered(lines, one_day_ago) == FilterFresh(SplitParse(lines), one_day_ago)

\* the callback of fs.readFile(target.log): err is TRUE for an error other
\* than ENOENT; a file that does not exist reads as ""
readFile_callback(key, err) ==
  /\ key \in recovery.pending
  /\ op' = "readFile_callback"
  /\ UNCHANGED found
  /\ raised' = "none"
  /\ UNCHANGED <<now, _started, fs_log, prev, left>>
  /\ LET r == [recovery EXCEPT !.pending = @ \ {key}]
     IN IF r.read_error \/ r.open_error \/ r.state_error
          THEN /\ recovery' = r
               /\ UNCHANGED <<_settings, _timestamps, _queued, _ready,
                              callback_log, fs_state, streams, alerts>>
        ELSE IF err
          THEN /\ recovery' = [r EXCEPT !.read_error = TRUE]
               /\ callback_log' = Append(callback_log, "error")
               /\ UNCHANGED <<_settings, _timestamps, _queued, _ready,
                              fs_state, streams, alerts>>
        ELSE LET timestamps == recovered(fs_log[key], r.one_day_ago)
                 r2 == [r EXCEPT !.reads_left = @ - 1, !.opens_left = @ - 1]
                 m == [Mem EXCEPT
                         !.settings[key].stream = TRUE,
                         !.streams[key] = closed_stream,
                         !.queued = (key :> (timestamps \o OrEmpty(_queued, key)))
                                    @@ @]
             IN /\ recovery' = r2
                /\ Finish(m, r2)

\* the read of `${root}/_state` takes the file as it is at some moment
\* between the call of fs.readFile and its callback
read_state ==
  /\ recovery.state_read = "issued"
  /\ recovery' = [recovery EXCEPT !.state_read = "read",
                                  !.state_data = fs_state]
  /\ op' = "read_state"
  /\ UNCHANGED found
  /\ raised' = "none"
  /\ UNCHANGED <<now, _settings, _timestamps, _queued, _started, _ready,
                 callback_log, fs_log, fs_state, streams, alerts, prev, left>>

\* import saved settings: for (let error_type in json)
restore(settings, json) ==
  [k \in DOMAIN settings |->
     IF k \in DOMAIN json
       THEN [settings[k] EXCEPT
               !.minute.last_alert = JsonGet(json, k, minute),
               !.hour.last_alert = JsonGet(json, k, hour),
               !.day.last_alert = JsonGet(json, k, day)]
       ELSE settings[k]]

\* the callback of fs.readFile(`${root}/_state`); a file that does not
\* exist reads as "{}"
read_state_callback(err) ==
  /\ recovery.state_read = "read"
  /\ op' = "read_state_callback"
  /\ UNCHANGED found
  /\ raised' = "none"
  /\ UNCHANGED <<now, _started, fs_log, prev, left>>
  /\ LET r == [recovery EXCEPT !.state_read = "done"]
     IN IF r.read_error \/ r.open_error \/ r.state_error
          THEN /\ recovery' = r
               /\ UNCHANGED <<_settings, _timestamps, _queued, _ready,
                              callback_log, fs_state, streams, alerts>>
        ELSE IF err
          THEN /\ recovery' = [r EXCEPT !.state_error = TRUE]
               /\ callback_log' = Append(callback_log, "error")
               /\ UNCHANGED <<_settings, _timestamps, _queued, _ready,
                              fs_state, streams, alerts>>
        ELSE LET r2 == [r EXCEPT !.state_loaded = TRUE]
                 m == [Mem EXCEPT
                         !.settings = restore(_settings, r.state_data)]
             IN /\ recovery' = r2
                /\ Finish(m, r2)

(***************************************************************************)
(* The write streams and the disk behind them.                             *)
(***************************************************************************)
\* fs.createWriteStream(path) opens the file with the default flags 'w':
\* when the open completes, the file is empty
stream_open(key) ==
  /\ key \in DOMAIN _settings
  /\ _settings[key].stream
  /\ ~streams[key].opened
  /\ streams' = [streams EXCEPT ![key].opened = TRUE]
  /\ fs_log' = [fs_log EXCEPT ![key] = << >>]
  /\ op' = "stream_open"
  /\ UNCHANGED found
  /\ raised' = "none"
  /\ UNCHANGED <<now, _settings, _timestamps, _queued, _started, _ready,
                 recovery, callback_log, fs_state, alerts, prev, left>>

\* the stream writes what it has buffered to the file
stream_flush(key) ==
  /\ streams[key].opened
  /\ streams[key].buf # << >>
  /\ fs_log' = [fs_log EXCEPT ![key] = @ \o streams[key].buf]
  /\ streams' = [streams EXCEPT ![key].buf = << >>]
  /\ op' = "stream_flush"
  /\ UNCHANGED found
  /\ raised' = "none"
  /\ UNCHANGED <<now, _settings, _timestamps, _queued, _started, _ready,
                 recovery, callback_log, fs_state, alerts, prev, left>>

\* the listener of "drain", which the stream emits once its buffer is empty
\* after a write() that returned false
_set_draining(key) ==
  /\ streams[key].opened
  /\ streams[key].buf = << >>
  /\ streams[key].need_drain
  /\ streams' = [streams EXCEPT ![key].need_drain = FALSE]
  /\ _settings' = [_settings EXCEPT ![key].draining = FALSE]
  /\ op' = "_set_draining"
  /\ UNCHANGED found
  /\ raised' = "none"
  /\ UNCHANGED <<now, _timestamps, _queued, _started, _ready, recovery,
                 callback_log, fs_log, fs_state, alerts, prev, left>>

(***************************************************************************)
(* The process stops and a new one is constructed and configured the same  *)
(* way: the disk stays, the memory and the open streams are gone.          *)
(***************************************************************************)
History(k) == OrEmpty(_timestamps, k) \o OrEmpty(_queued, k)

\* the settings the same configuration statements give a new process
reconfigured(s) ==
  [s EXCEPT !.stream = FALSE, !.draining = FALSE,
            !.minute.last_alert = Undefined,
            !.hour.last_alert = Undefined,
            !.day.last_alert = Undefined]

\* everything the process holds is in its committed segments and on the disk
Flushed ==
  \A k \in Keys : OrEmpty(_queued, k) = << >> /\ streams[k].buf = << >>

\* the call that ran last is a tell at the time of the alert sent last
AfterAlert ==
  op = "tell" /\ alerts # << >> /\ alerts[Len(alerts)].time = now

restart ==
  /\ left.crashes > 0
  /\ left' = [left EXCEPT !.crashes = @ - 1]
  /\ prev' = IF (_ready /\ Flushed) \/ AfterAlert
               THEN [stopped |-> TRUE,
                     ready |-> _ready,
                     flushed |-> Flushed,
                     after_alert |-> AfterAlert,
                     history |-> [k \in Keys |-> History(k)],
                     last_alert |-> [k \in DOMAIN _settings |->
                                       [w \in Windows |->
                                          _settings[k][w].last_alert]],
                     targets |-> recovery.targets,
                     state_file |-> fs_state,
                     left |-> left]
               ELSE [no_prev EXCEPT !.stopped = TRUE]
  /\ _settings' = [k \in DOMAIN _settings |-> reconfigured(_settings[k])]
  /\ _timestamps' = (ALL :> << >>)
  /\ _queued' = (ALL :> << >>)
  /\ _started' = FALSE
  /\ _ready' = FALSE
  /\ recovery' = no_recovery
  /\ callback_log' = << >>
  /\ streams' = [k \in Keys |-> closed_stream]
  /\ op' = "restart"
  /\ UNCHANGED found
  /\ raised' = "none"
  /\ UNCHANGED <<now, fs_log, fs_state, alerts>>

Next ==
  \/ \E k \in ConfigKeys : watch(k)
  \/ \E k \in ConfigKeys : ignore(k)
  \/ \E k \in ConfigKeys : log(k)
  \/ \E k \in ConfigKeys, w \in ConfigWindows, n \in ThresholdInputs,
        c \in CooldownInputs : on_threshold_cooldown(k, w, n, c)
  \/ \E k \in ConfigKeys, w \in ConfigWindows : off(k, w)
  \/ \E error \in Errors, d \in Deltas : tell(error, d)
  \/ \E d \in Deltas : start(d)
  \/ \E k \in Keys, err \in BOOLEAN : readFile_callback(k, err)
  \/ read_state
  \/ \E err \in BOOLEAN : read_state_callback(err)
  \/ \E k \in Keys : stream_open(k)
  \/ \E k \in Keys : stream_flush(k)
  \/ \E k \in Keys : _set_draining(k)

Spec == Init /\ [][Next]_vars

\* the same with fewer configuration statements
SpecF == InitF /\ [][Next]_vars

\* the same with processes that stop and are started again, and with reads
\* that do not fail
NextR ==
  \/ \E k \in ConfigKeys : watch(k)
  \/ \E k \in ConfigKeys : ignore(k)
  \/ \E k \in ConfigKeys : log(k)
  \/ \E k \in ConfigKeys, w \in ConfigWindows, n \in ThresholdInputs,
        c \in CooldownInputs : on_threshold_cooldown(k, w, n, c)
  \/ \E k \in ConfigKeys, w \in ConfigWindows : off(k, w)
  \/ \E error \in Errors, d \in Deltas : tell(error, d)
  \/ dead
  \/ \E d \in Deltas : start(d)
  \/ \E k \in Keys : readFile_callback(k, FALSE)
  \/ read_state
  \/ read_state_callback(FALSE)
  \/ \E k \in Keys : stream_open(k)
  \/ \E k \in Keys : stream_flush(k)
  \/ \E k \in Keys : _set_draining(k)
  \/ restart

SpecR == InitR /\ [][NextR]_vars

\* the callbacks of the reads start has issued are called, and the streams
\* of the event types that can have a log open, write what they hold and
\* emit drain; nothing makes the program's
\* caller configure, tell or start
Fairness ==
  /\ \A k \in ConfigKeys :
       /\ WF_vars(\E err \in BOOLEAN : readFile_callback(k, err))
       /\ WF_vars(stream_open(k))
       /\ WF_vars(stream_flush(k))
       /\ WF_vars(_set_draining(k))
  /\ WF_vars(read_state)
  /\ WF_vars(\E err \in BOOLEAN : read_state_callback(err))

SpecL == InitL /\ [][Next]_vars /\ Fairness

(***************************************************************************)
(* The range index on its own: _find_bound and _find_range called on a     *)
(* store that holds any non-decreasing history, split anywhere into its    *)
(* committed and its queued segment.                                       *)
(***************************************************************************)
Stamps == 1..MaxStamp

\* the targets and bounds asked for: every timestamp, one before and one after
Targets == 0..(MaxStamp + 1)

NonDecreasing(h) == \A i \in 1..(Len(h) - 1) : h[i] <= h[i + 1]

Histories ==
  {h \in UNION {[1..n -> Stamps] : n \in 0..MaxLen} : NonDecreasing(h)}

InitQ ==
  /\ now = Epoch
  /\ _settings = (ALL :> _blank_settings) @@ (DEFAULT :> _blank_settings)
  /\ \E h \in Histories, n \in 0..MaxLen :
       /\ n <= Len(h)
       /\ _timestamps = (ALL :> SubSeq(h, 1, n))
       /\ _queued = (ALL :> SubSeq(h, n + 1, Len(h)))
  /\ _started = FALSE
  /\ _ready = FALSE
  /\ recovery = no_recovery
  /\ callback_log = << >>
  /\ fs_log = [k \in Keys |-> << >>]
  /\ fs_state = << >>
  /\ streams = [k \in Keys |-> closed_stream]
  /\ alerts = << >>
  /\ op = "new"
  /\ raised = "none"
  /\ prev = no_prev
  /\ left = [tells |-> 0, configs |-> 0, crashes |-> 0]
  /\ found = no_result

\* this._find_bound(target, timestamps) on the history of _all
call_find_bound(target) ==
  /\ found' = [no_result EXCEPT
                 !.query = "_find_bound",
                 !.from = target,
                 !.index = find_bound(target, History(ALL))]
  /\ op' = "_find_bound"
  /\ UNCHANGED <<now, _settings, _timestamps, _queued, _started, _ready,
                 recovery, callback_log, fs_log, fs_state, streams, alerts,
                 raised, prev, left>>

\* this._find_range(this.ALL, { from: from, to: to })
call_find_range(from, to) ==
  /\ found' = [no_result EXCEPT
                 !.query = "_find_range",
                 !.from = from,
                 !.to = to,
                 !.range = _find_range(OrEmpty(_timestamps, ALL),
                                       OrEmpty(_queued, ALL), from, to)]
  /\ op' = "_find_range"
  /\ UNCHANGED <<now, _settings, _timestamps, _queued, _started, _ready,
                 recovery, callback_log, fs_log, fs_state, streams, alerts,
                 raised, prev, left>>

NextQ ==
  \/ \E target \in Targets : call_find_bound(target)
  \/ \E from \in Targets \cup {Undefined}, to \in Targets \cup {Undefined} :
       call_find_range(from, to)

SpecQ == InitQ /\ [][NextQ]_vars

(***************************************************************************)
(* The properties.                                                         *)
(***************************************************************************)
RangeErrorObject == [kind |-> "Error", name |-> RangeError]
RangeErrorString == [kind |-> "string", name |-> RangeError]

\* the steps that are a call of tell, and of start
TellStep == \E error \in Errors, d \in Deltas : tell(error, d)
StartStep == \E d \in Deltas : start(d)

\* the alerts a step sends for an event type and a window
Sent(k, w) ==
  {i \in (Len(alerts) + 1)..Len(alerts') :
     alerts'[i].key = k /\ alerts'[i].window = w}

\* the timestamps of a history that are at or after a lower bound
InRange(history, from) == {i \in 1..Len(history) : history[i] >= from}

\* C3: tell accepts a string as an occurrence: when the string is the key of a
\* watched event type, the call appends one timestamp, the time of the call,
\* to that type's store, as it does for an Error object of that class name.
C3_StringIsAnOccurrence ==
  [][\A d \in Deltas :
       (/\ tell(RangeErrorString, d)
        /\ RangeError \in DOMAIN _settings
        /\ _settings[RangeError].watch)
       => History(RangeError)' = Append(History(RangeError), now')]_vars

\* C4: telling an occurrence whose key was never configured does not fail:
\* the key gets the default settings, the time of the call is appended to the
\* key's store, and no alert is sent for the key.
C4_UnconfiguredKeyIsTold ==
  [][\A d \in Deltas :
       (tell(RangeErrorObject, d) /\ RangeError \notin DOMAIN _settings)
       => /\ raised' = "none"
          /\ RangeError \in DOMAIN _settings'
          /\ _settings'[RangeError] = _blank_settings
          /\ History(RangeError)' = <<now'>>
          /\ \A w \in Windows : Sent(RangeError, w) = {}]_vars

\* C6: a second call of start reports an error to its caller through the
\* callback, throws nothing, and changes neither the settings, the store,
\* started, ready, the files nor the streams.
C6_SecondStartReportsToCallback ==
  [][\A d \in Deltas :
       (start(d) /\ _started)
       => /\ raised' = "none"
          /\ callback_log' = Append(callback_log, "error")
          /\ UNCHANGED <<_settings, _timestamps, _queued, _started, _ready,
                         recovery, fs_log, fs_state, streams>>]_vars

\* C1: once an alert has been sent for an event type and a window, no other
\* alert is sent for the same event type and window less than the window's
\* cooldown later, in every state every sequence of operations reaches, the
\* tells made during start's recovery and after a restart included.
C1_CooldownSuppression ==
  \A i, j \in 1..Len(alerts) :
    (/\ i < j
     /\ alerts[i].key = alerts[j].key
     /\ alerts[i].window = alerts[j].window)
    => LET check == _settings[alerts[i].key][alerts[i].window]
       IN check.cooldown # Undefined
          => alerts[j].time - alerts[i].time >= check.cooldown * MinuteMs

\* the event types a call of tell with a RangeError runs _check for
Checked ==
  {k \in {ALL, RangeError} : k \in DOMAIN _settings /\ _settings[k].watch}

\* what the check of a window has to decide at the time current_time, on the
\* history the check runs on
MustFire(check, history, from, current_time) ==
  /\ check.enabled
  /\ ~InCooldown(check, current_time)
  /\ check.threshold # Undefined
  /\ Cardinality(InRange(history, from)) >= check.threshold

\* C2: the check a tell runs for an event type sends an alert for a window if
\* and only if the window is enabled, is not in cooldown, and the timestamps
\* of committed ++ queued that are at or after now - size(window) number at
\* least the threshold; when it sends one, last_alert of the window becomes
\* now, and when it does not, last_alert is unchanged.
C2_CheckFiresIffThresholdReached ==
  [][\A d \in Deltas :
       tell(RangeErrorObject, d)
       => \A k \in Checked, w \in Windows :
            LET fire == MustFire(_settings[k][w], History(k)',
                                 now' - window[w], now')
            IN /\ (Sent(k, w) # {}) <=> fire
               /\ _settings'[k][w].last_alert =
                    IF fire THEN now' ELSE _settings[k][w].last_alert]_vars

\* the event types that are set to ignore()
Ignored == {k \in DOMAIN _settings : ~_settings[k].watch}

\* what a call of tell or start does not do for an ignored event type: send
\* an alert for it, take its log as a target of the recovery, open its stream
IgnoredIsLeftAlone(k) ==
  /\ \A w \in Windows : Sent(k, w) = {}
  /\ (StartStep /\ ~_started) => k \notin recovery'.targets
  /\ StartStep => (_settings'[k].stream = _settings[k].stream
                   /\ streams'[k].opened = streams[k].opened)

\* C5 as stated: a call of tell or start made while an event type is ignored
\* adds no entry to the committed segment and none to the queued segment of
\* the type, does not read or open its log, and sends no alert for it.
C5_IgnoredSegmentsGainNothing ==
  [][(TellStep \/ StartStep)
     => \A k \in Ignored :
          /\ Len(OrEmpty(_timestamps', k)) <= Len(OrEmpty(_timestamps, k))
          /\ Len(OrEmpty(_queued', k)) <= Len(OrEmpty(_queued, k))
          /\ IgnoredIsLeftAlone(k)]_vars

\* C5: a call of tell or start made while an event type is ignored leaves the
\* history committed ++ queued of the type as it is (entries that were queued
\* before may move to the committed segment), does not read or open its log,
\* and sends no alert for it.
C5_IgnoredHistoryUnchanged ==
  [][(TellStep \/ StartStep)
     => \A k \in Ignored :
          /\ History(k)' = History(k)
          /\ IgnoredIsLeftAlone(k)]_vars

\* an Error was told while RangeError was ignored, and the flush of that tell
\* has moved timestamps of RangeError to the committed segment
C5_Witness ==
  /\ op = "tell"
  /\ raised = "none"
  /\ RangeError \in Ignored
  /\ History(ALL) # << >>
  /\ History(ALL)[Len(History(ALL))] = now
  /\ OrEmpty(_timestamps, RangeError) # << >>

\* a read of the start call has reported an error
ReadFailed ==
  recovery.read_error \/ recovery.open_error \/ recovery.state_error

\* every read of the start call has called back
AllReadsBack == recovery.pending = {} /\ recovery.state_read = "done"

\* the join of start over its reads: the callback is called at most once,
\* once when all reads are back; without an error exactly when ready is
\* set, and then every read is back without an error and every target has
\* its write stream; with an error when a read failed, and then ready is
\* never set
StartJoinsReads ==
  /\ Len(callback_log) <= 1
  /\ (_started /\ AllReadsBack) => Len(callback_log) = 1
  /\ _ready <=> callback_log = <<"ok">>
  /\ _ready => /\ AllReadsBack
               /\ ~ReadFailed
               /\ \A k \in recovery.targets : _settings[k].stream
  /\ ReadFailed <=> callback_log = <<"error">>

\* C7: for every order in which the reads of a start call complete, the
\* callback is called exactly once; it is called without an error, and ready
\* is set, only after every log read, with the write stream of its log open,
\* and the state read have finished without an error; when a read fails the
\* callback is called once with the error and ready is never set.
C7_StartJoin ==
  /\ StartJoinsReads
  /\ _ready => \A k \in recovery.targets : streams[k].opened

\* the lower bounds count_in_range is asked with: those of the minute and
\* of the day window at the current time
RangeBounds == {now - window[minute], now - window[day]}

\* the write of an event type's queue succeeds (or is not necessary)
Writable(m, k) == _write(m, k, OrEmpty(m.queued, k)).ret

\* the memory _tell(key, now) hands to _flush_queued
Pushed(key) ==
  [Mem EXCEPT !.queued = (key :> Append(OrEmpty(_queued, key), now)) @@ @]

\* _flush_queued run on the memory m0 loses and duplicates nothing, for every
\* event type that has a committed or a queued segment
Transparent(m0) ==
  \A m \in {_flush_queued(m0)}, k \in DOMAIN m0.queued \cup DOMAIN m0.timestamps :
    \A saved \in {OrEmpty(m0.timestamps, k)}, queued \in {OrEmpty(m0.queued, k)},
       saved2 \in {OrEmpty(m.timestamps, k)}, queued2 \in {OrEmpty(m.queued, k)} :
      /\ saved2 \o queued2 = saved \o queued
      /\ IF k \in DOMAIN m0.queued /\ Writable(m0, k)
           THEN saved2 = saved \o queued /\ k \notin DOMAIN m.queued
           ELSE saved2 = saved /\ queued2 = queued
      /\ \A from \in RangeBounds :
           _find_range(saved2, queued2, from, Undefined)
             = _find_range(saved, queued, from, Undefined)

\* C8: _flush_queued loses and duplicates nothing: for every event type,
\* committed ++ queued after the flush is the sequence it was before; where
\* the write succeeds the queued entries are at the end of committed, in
\* their order, and the type has left the queue, and where it fails both
\* segments are as before; so _find_range gives the same range for the same
\* bounds before and after the flush.  Stated of the flush of every reachable
\* memory, as it is and as _tell hands it over after its push for a watched
\* event type.
C8_FlushIsTransparent ==
  /\ Transparent(Mem)
  /\ \A key \in DOMAIN _settings : _settings[key].watch => Transparent(Pushed(key))

\* a tell has flushed: the timestamp of _all has moved to the committed
\* segment, and that of RangeError, whose log has no stream to be written
\* to, is still queued
C8_Witness ==
  /\ op = "tell"
  /\ OrEmpty(_timestamps, ALL) # << >>
  /\ ALL \notin DOMAIN _queued
  /\ RangeError \in DOMAIN _queued
  /\ _queued[RangeError] # << >>
  /\ ~Writable(Mem, RangeError)

\* a process that had completed its start and had written everything it held
\* to its streams, and they to the disk, was stopped; the process that
\* follows it has completed its start, for the same logs, and has not been
\* told or configured anything, and has not saved its state, since
Recovered ==
  /\ prev.stopped
  /\ prev.ready
  /\ prev.flushed
  /\ _ready
  /\ recovery.targets = prev.targets
  /\ fs_state = prev.state_file
  /\ left.tells = prev.left.tells
  /\ left.configs = prev.left.configs

\* C9: recovery is a round trip: once the start of the new process has
\* completed, last_alert of every configured event type and window is what
\* the stopped process had, and the history of every logged event type is the
\* history the stopped process had, without the timestamps that are older
\* than one day before the new start.
C9_RecoveryRoundTrip ==
  Recovered
  => \A k \in DOMAIN _settings :
       /\ \A w \in Windows : _settings[k][w].last_alert = prev.last_alert[k][w]
       /\ (_settings[k].log /\ _settings[k].watch)
          => History(k) = FilterFresh(prev.history[k], recovery.one_day_ago)

C11_FindBoundIsLowerBound ==
  found.query = "_find_bound"
  => LET S == History(ALL)
         i == found.index
     IN /\ i \in 0..Len(S)
        /\ \A j \in 1..Len(S) : IF j <= i THEN S[j] < found.from
                                           ELSE S[j] >= found.from

\* the alerts a step sends for an event type, in their order
NewAlerts(k) ==
  SelectSeq(SubSeq(alerts', Len(alerts) + 1, Len(alerts')),
            LAMBDA a : a.key = k)

\* the alerts _tell sends for an event type when it is run for that type
\* alone, on the memory the call of tell has found
AlertsAlone(k, current_time) ==
  LET m == _tell(Mem, k, current_time)
  IN SelectSeq(SubSeq(m.alerts, Len(alerts) + 1, Len(m.alerts)),
               LAMBDA a : a.key = k)

CountReached(k, w) ==
  ReachesThreshold(
    error_count(_find_range(OrEmpty(_timestamps', k), OrEmpty(_queued', k),
                            now' - window[w], Undefined)),
    _settings[k][w].threshold)

\* a check of the step runs for a window that is enabled, has a cooldown and
\* has sent an alert before
HasAlerted(k, w) ==
  /\ _settings[k][w].enabled
  /\ Truthy(_settings[k][w].last_alert)
  /\ _settings[k][w].cooldown # Undefined

\* C13 as stated: a window that has sent an alert before is skipped if and
\* only if current_time - last_alert < cooldown in milliseconds, so that at
\* exactly cooldown milliseconds after the last alert, with the count at or
\* above the threshold, the alert is sent.
C13_CooldownOverAtBoundary ==
  [][\A d \in Deltas :
       tell(RangeErrorObject, d)
       => \A k \in Checked, w \in Windows :
            HasAlerted(k, w)
            => ((Sent(k, w) # {})
                <=> (/\ now' - _settings[k][w].last_alert
                          >= _settings[k][w].cooldown * MinuteMs
                     /\ CountReached(k, w)))]_vars

\* C13: a window that has sent an alert before is skipped if and only if
\* current_time - last_alert <= cooldown in milliseconds: at exactly cooldown
\* milliseconds after the last alert no alert is sent, whatever the count,
\* and later than that the alert is sent when the count reaches the threshold.
C13_CooldownIncludesBoundary ==
  [][\A d \in Deltas :
       tell(RangeErrorObject, d)
       => \A k \in Checked, w \in Windows :
            HasAlerted(k, w)
            => ((Sent(k, w) # {})
                <=> (/\ now' - _settings[k][w].last_alert
                          > _settings[k][w].cooldown * MinuteMs
                     /\ CountReached(k, w)))]_vars

\* a tell made exactly cooldown milliseconds after the last alert of a
\* window whose threshold is 1 has sent no alert for it
C13_Witness ==
  /\ op = "tell"
  /\ \E k \in {ALL, RangeError} :
       /\ k \in DOMAIN _settings
       /\ _settings[k].watch
       /\ _settings[k][minute].enabled
       /\ _settings[k][minute].threshold = 1
       /\ _settings[k][minute].cooldown # Undefined
       /\ _settings[k][minute].last_alert
            = now - _settings[k][minute].cooldown * MinuteMs
       /\ History(k) # << >>
       /\ History(k)[Len(History(k))] = now

\* C14: in every reachable state the history committed ++ queued of every
\* event type is non-decreasing (the clock never goes back and the log files
\* are non-decreasing), after start has merged the timestamps of the logs
\* too, whatever the order of the configuration calls, the tells and start.
C14_HistoryNonDecreasing ==
  \A k \in Keys : NonDecreasing(History(k))

\* the timestamps of the last 24 hours, as start has fixed them, that the
\* log file of k holds
FreshOnDisk(k) ==
  {fs_log[k][i] : i \in {j \in 1..Len(fs_log[k]) :
                            Fresh(fs_log[k][j], recovery.one_day_ago)}}

\* C15: the open of the output stream of a log that start has made does not
\* remove anything of the file: every timestamp of the last 24 hours that the
\* file held before the open is in the file after it.
C15_StreamOpenKeepsLog ==
  [][\A k \in Keys :
       (op' = "stream_open" /\ ~streams[k].opened /\ streams'[k].opened)
         => \A t \in FreshOnDisk(k) :
              \E i \in 1..Len(fs_log'[k]) : fs_log'[k][i] = t]_vars

\* the process that stopped did so right after a tell made at the time of the
\* alert sent last; the process that follows it has completed its start and
\* has not been told or configured anything, and has not saved its state,
\* since
RestartedAfterAlert ==
  /\ prev.stopped
  /\ prev.after_alert
  /\ _ready
  /\ fs_state = prev.state_file
  /\ left.tells = prev.left.tells
  /\ left.configs = prev.left.configs

\* last_alert of k and w as the state file json has it
Saved(json, k, w) ==
  IF k \in DOMAIN json THEN JsonGet(json, k, w) ELSE Undefined

\* C16: when a tell has sent an alert, the state file holds, when the tell
\* returns, last_alert of every configured event type and window as the
\* memory holds it; and a process that follows one stopped right after such
\* a tell has, once its start has completed, every last_alert the state file
\* held at the stop, so that the cooldown of the alert is still in force.
C16_AlertIsSaved ==
  /\ [][(TellStep /\ alerts' # alerts)
         => \A k \in DOMAIN _settings' : \A w \in Windows :
              /\ k \in DOMAIN fs_state'
              /\ Saved(fs_state', k, w) = _settings'[k][w].last_alert]_vars
  /\ [](RestartedAfterAlert
         => \A k \in DOMAIN _settings : \A w \in Windows :
              _settings[k][w].last_alert = Saved(prev.state_file, k, w))

\* a process restarted right after an alert holds the time of that alert
C16_Witness ==
  /\ RestartedAfterAlert
  /\ op = "read_state_callback"
  /\ \E k \in DOMAIN _settings : \E w \in Windows :
       /\ _settings[k][w].last_alert = alerts[Len(alerts)].time
       /\ _settings[k][w].last_alert = prev.last_alert[k][w]
       /\ alerts[Len(alerts)].key = k
       /\ alerts[Len(alerts)].window = w

\* the drain signal of the stream of k has been observed, or the stream has
\* been made and has not signalled a full buffer, and start has completed:
\* timestamps of k are queued that _write would take
HeldAfterDrain(k) ==
  /\ _ready
  /\ k \in DOMAIN _settings
  /\ _settings[k].log
  /\ _settings[k].stream
  /\ ~_settings[k].draining
  /\ OrEmpty(_queued, k) # << >>

\* C17: the timestamps that backpressure has held in the queue of an event
\* type are, once the drain signal has been observed, eventually written to
\* the stream and moved to the committed segment: the queue of the event type
\* is eventually empty.
C17_HeldEntriesArePersisted ==
  \A k \in ConfigKeys : HeldAfterDrain(k) ~> (OrEmpty(_queued, k) = << >>)

\* the stream of k signals a full buffer when data is written to it
SignalsFull(m, k, data) ==
  Len(m.streams[k].buf) + Len(JoinLines(data)) >= HighWaterMark

\* the outcome of _write(k, data) on the memory m is the one its case has
WriteOutcome(m, k, data) ==
  LET w == _write(m, k, data)
  IN IF ~m.settings[k].log
       THEN w.ret /\ w.m = m
     ELSE IF m.settings[k].draining \/ ~m.settings[k].stream
       THEN ~w.ret /\ w.m = m
     ELSE /\ w.ret
          /\ w.m.streams[k].buf = m.streams[k].buf \o JoinLines(data)
          /\ w.m.settings[k].draining = SignalsFull(m, k, data)
          /\ w.m.streams[k].opened = m.streams[k].opened
          /\ [w.m EXCEPT !.streams = m.streams, !.settings = m.settings]
               = m
          /\ \A j \in DOMAIN m.settings \ {k} :
               /\ w.m.settings[j] = m.settings[j]
               /\ w.m.streams[j] = m.streams[j]
          /\ [w.m.settings[k] EXCEPT !.draining = FALSE] = m.settings[k]

\* C18: _write(error_type, data), for every configured event type and its
\* queue, in every reachable memory and in the memory _tell hands over after
\* its push: without a log it writes nothing and returns true; with a log and
\* the stream draining or not made yet it writes nothing, changes nothing and
\* returns false; otherwise it writes all of data to the stream, returns true
\* and sets draining exactly when the stream signals a full buffer.  And
\* draining goes back to false only in the listener of the drain signal.
C18_WriteOutcomes ==
  /\ [](\A k \in DOMAIN _settings :
          /\ WriteOutcome(Mem, k, OrEmpty(_queued, k))
          /\ WriteOutcome(Pushed(k), k, OrEmpty(Pushed(k).queued, k)))
  /\ [][\A k \in DOMAIN _settings :
          (_settings[k].draining /\ k \in DOMAIN _settings'
           /\ ~_settings'[k].draining) => op' = "_set_draining"]_vars

\* a tell has found the stream of RangeError draining, after a write that
\* filled its buffer, and has left its timestamp in the queue
C18_Witness ==
  /\ op = "tell"
  /\ RangeError \in DOMAIN _settings
  /\ _settings[RangeError].log
  /\ _settings[RangeError].draining
  /\ streams[RangeError].buf # << >>
  /\ OrEmpty(_queued, RangeError) # << >>
  /\ ~_write(Mem, RangeError, OrEmpty(_queued, RangeError)).ret

\* the number of timestamps of the history that are less than target: the
\* first index (from 0) whose timestamp is >= target, Len(history) if none
LowerBound(history, target) ==
  Cardinality({i \in 1..Len(history) : history[i] < target})

\* C19: when _find_range is given an upper bound `to`, the index to of its
\* result is the lower bound of `to` over committed ++ queued, less one when
\* that is the length of the history.
C19_ToIndexIsLowerBoundOfTo ==
  (found.query = "_find_range" /\ Truthy(found.to))
  => LET to_index == LowerBound(History(ALL), found.to)
     IN found.range.to = IF to_index = Len(History(ALL))
                           THEN to_index - 1 ELSE to_index

\* the timestamps of a history, as a set
Elements(history) == {history[i] : i \in 1..Len(history)}

\* readFile_callback has run for k in this step and has stored what it read
ReadIn(k) ==
  /\ op' = "readFile_callback"
  /\ k \in recovery.pending
  /\ k \notin recovery'.pending
  /\ recovery'.reads_left = recovery.reads_left - 1

Written(k) ==
  SelectSeq((IF streams[k].opened THEN fs_log[k] ELSE << >>) \o streams[k].buf,
            LAMBDA t : t # NaN)

\* C21: for every event type start has made a stream for, the timestamps
\* written to the stream since it was made are the committed segment of the
\* type: every committed timestamp was written once, in order, and no other
\* timestamp was, whatever the order of the configuration calls, the tells
\* and start.
C21_WrittenIsCommitted ==
  \A k \in recovery.targets :
    (k \in DOMAIN _settings /\ _settings[k].stream)
    => Written(k) = OrEmpty(_timestamps, k)
====
